---- MODULE Spec2Model ----
(***************************************************************************)
(* Model of scripts/generate_burndown.py: the Sprint/Task data model, the  *)
(* ideal and actual burndown calculators, the chart geometry and the two   *)
(* renderers, and the per-file loop of main(); and of                      *)
(* scripts/check_benchmarks.py: the gate table, the parser of benchmark    *)
(* lines, the loop of check_gates and main().                              *)
(*                                                                         *)
(* Encodings                                                               *)
(*  - Story points are kept in tenths of a point (10 = 1 point, 5 = 0.5).  *)
(*    A weight that is not a multiple of 10 is a YAML float; every other   *)
(*    weight is a YAML int.  round(x, 1) is then rounding to an integer.   *)
(*  - A "%Y-%m-%d" string is the tuple <<year, month, day>>; string        *)
(*    comparison is lexicographic comparison of the tuples.  None and the  *)
(*    empty string (both falsy) are the empty tuple.                       *)
(*  - A datetime is its day ordinal inside a window that starts on         *)
(*    2024-12-30 and crosses the year boundary.                            *)
(*  - A pixel coordinate is an exact fraction plus the residue of the      *)
(*    IEEE double the chart prints (see Coord).                            *)
(*  - A number of the calculators is the triple <<n, e, f>>: n is its      *)
(*    value in tenths and e its residue, the distance of the IEEE double   *)
(*    from n/10 in units of 2^-60 / 10.  An int is <<n, 0, 0>>, the        *)
(*    literal 0.1 is <<1, 64, 0>>, 0.5 is <<5, 0, 0>>, 0.1 + 0.2 is        *)
(*    <<3, 512, 0>> and the literal 0.3 is <<3, -128, 0>>.  f is the       *)
(*    residue of the residue, in units of 2^-120 / 10, of a double that    *)
(*    has no tenths: 0.1 + 0.2 - 0.3 = 2^-54 is <<0, 640, 0>>, and a third *)
(*    of it, a quotient over the denominator 3, is <<0, 640, f>> with      *)
(*    (640 + f * 2^-60) / 30 the double nearest to 640 / 30.  A series     *)
(*    point keeps n in "remaining" and e in "residue".  sum() adds from    *)
(*    left to right (CPython before 3.12).                                 *)
(***************************************************************************)
EXTENDS Integers, Sequences, FiniteSets, TLC

\* generate_burndown.py
VARIABLES files, fmt, i, pc, clock, sprint, ideal, actual, svg, md, out, log

\* check_benchmarks.py
VARIABLES argv, content, bpc, results, report, printed, rc

burndown_vars == <<files, fmt, i, pc, clock, sprint, ideal, actual, svg, md, out, log>>

benchmark_vars == <<argv, content, bpc, results, report, printed, rc>>

vars == <<burndown_vars, benchmark_vars>>

(* ---------------------------- bounds ----------------------------------- *)
MaxDuration == 2
MaxTasks == 2
MaxFiles == 3
MaxPoints == 30
MaxLines == 2

(* ---------------------------- helpers ---------------------------------- *)
Max(a, b) == IF a >= b THEN a ELSE b

Abs(a) == IF a < 0 THEN 0 - a ELSE a

RECURSIVE Gcd(_, _)
Gcd(a, b) == IF b = 0 THEN a ELSE Gcd(b, a % b)

\* the fraction n/d (d > 0) in lowest terms
Frac(n, d) ==
    LET g == Gcd(Abs(n), d)
    IN  <<n \div g, d \div g>>

\* all sequences over S of length 0..n
SeqsUpTo(S, n) == UNION {[1..k -> S] : k \in 0..n}

\* F(x), with x evaluated once and F applied to its value
Bind(x, F(_)) == CHOOSE y \in {F(v) : v \in {x}} : TRUE

(* ---------------------------- float arithmetic ------------------------- *)
\* A number is a triple <<n, e, f>> over a denominator D: the double
\*     (n + e * 2^-B + f * 2^-(2 * B)) / (10 * D)
\* n counts tenths, e is the residue the rounding to a double leaves and f is
\* the residue of a double without tenths (n = 0), which is e * 2^-B / (10 * D)
\* rounded in its own binade; f = 0 beside n # 0.
\* residues of the calculators count units of 2^-FBits / 10
FBits == 60

\* residues of the chart geometry count units of 2^-GBits / (10 * D)
GBits == 56

\* 2^q mod m for q <= FBits, as the product of two powers that fit an int
Pow2Mod(q, m) == ((2^(q \div 2) % m) * (2^(q - (q \div 2)) % m)) % m

\* the largest j with b * 2^j <= a (a >= b > 0)
RECURSIVE Exponent(_, _)
Exponent(a, b) == IF a < 2 * b THEN 0 ELSE 1 + Exponent(a, 2 * b)

Sign(a) == IF a > 0 THEN 1 ELSE IF a < 0 THEN 0 - 1 ELSE 0

\* The residue of the double nearest to the exact value
\* (n * 2^B + e + t) / (10 * D * 2^B), n > 0, where t is a part smaller than
\* one unit of which only the sign s is kept (the product of two residues);
\* ties go to the even mantissa.
\* In the binade [2^(j+52-B), 2^(j+53-B)) doubles are M = 10 * D * 2^j units apart.
binade(B, n, e, D, s) ==
    Bind(Exponent(2^(B - 52) * n, 10 * D),
         LAMBDA j0 : IF /\ 2^(B - 52) * n = 10 * D * 2^j0
                        /\ (e < 0 \/ (e = 0 /\ s < 0))
                     THEN j0 - 1 ELSE j0)

\* n * 2^B modulo twice the spacing 10 * D * 2^j
high_part(B, n, D, j) ==
    2^(j + 2) * (((n % (5 * D)) * Pow2Mod(B - 2 - j, 5 * D)) % (5 * D))

\* e moved to the nearest multiple of M, R2 being the value modulo 2 * M
nearest(e, M, R2, s) ==
    LET r == R2 % M
    IN  IF 2 * r < M \/ (2 * r = M /\ (s < 0 \/ (s = 0 /\ R2 < M)))
        THEN e - r ELSE e + M - r

fl_round_pos(B, n, e, D, s) ==
    Bind(binade(B, n, e, D, s),
         LAMBDA j : Bind((high_part(B, n, D, j) + e) % (20 * D * 2^j),
                         LAMBDA R2 : nearest(e, 10 * D * 2^j, R2, s)))

\* the same for either sign of n # 0: rounding is symmetric
fl_round_signed(B, n, e, D, s) ==
    IF n > 0 THEN fl_round_pos(B, n, e, D, s)
    ELSE 0 - fl_round_pos(B, 0 - n, 0 - e, D, 0 - s)

\* the double nearest to (n + e * 2^-B + f * 2^-(2 * B)) / (10 * D), as a
\* number over D. Beside tenths f is smaller than one unit and only its sign
\* counts; without tenths the value is 2^-B * (e + f * 2^-B) / (10 * D), and
\* scaling by a power of two commutes with the rounding. A number has tenths
\* or a residue e: f alone would be a double below 2^-(2 * B), which no sum,
\* difference, product by a day or quotient by a duration of story points is
round_double(B, n, e, f, D) ==
    Bind(<<B, n, e, f, D>>,
         LAMBDA a : IF a[2] # 0
                    THEN <<a[2], fl_round_signed(a[1], a[2], a[3], a[5], Sign(a[4])), 0>>
                    ELSE IF a[3] # 0
                    THEN <<0, a[3], fl_round_signed(a[1], a[3], a[4], a[5], 0)>>
                    ELSE <<0, 0, a[4]>>)

\* the same for the calculators: residues of 2^-FBits
fl_round(n, e, D) == round_double(FBits, n, e, 0, D)

\* the doubles nearest to the tenths 0, 0.1, ... MaxPoints, computed once
tenths == [w \in 0..(10 * MaxPoints) |-> fl_round(w, 0, 1)]

\* the number a YAML scalar of w tenths loads as (an int is exact)
number(w) ==
    Bind(w, LAMBDA v : IF v \in 0..(10 * MaxPoints) THEN tenths[v] ELSE fl_round(v, 0, 1))

\* the number is its tenths exactly (an int, a half)
is_exact(a) == a[2] = 0 /\ a[3] = 0

\* a + b and a - b: exact on ints, rounded on floats; the sum of two exact
\* numbers is the double of its tenths, number(n) = fl_round(n, 0, 1)
fl_add(a, b) ==
    Bind(<<a, b>>,
         LAMBDA p : IF is_exact(p[1]) /\ is_exact(p[2]) THEN number(p[1][1] + p[2][1])
                    ELSE round_double(FBits, p[1][1] + p[2][1], p[1][2] + p[2][2],
                                      p[1][3] + p[2][3], 1))

fl_sub(a, b) ==
    Bind(<<a, b>>,
         LAMBDA p : IF is_exact(p[1]) /\ is_exact(p[2]) THEN number(p[1][1] - p[2][1])
                    ELSE round_double(FBits, p[1][1] - p[2][1], p[1][2] - p[2][2],
                                      p[1][3] - p[2][3], 1))

\* a > 0
fl_positive(a) == a[1] > 0 \/ (a[1] = 0 /\ (a[2] > 0 \/ (a[2] = 0 /\ a[3] > 0)))

\* a <= b
fl_le(a, b) ==
    \/ a[1] < b[1]
    \/ a[1] = b[1] /\ a[2] < b[2]
    \/ a[1] = b[1] /\ a[2] = b[2] /\ a[3] <= b[3]

(* ---------------------------- calendar --------------------------------- *)
MaxDay == MaxDuration + 2

Ordinals == 0..MaxDay

\* date.strftime("%Y-%m-%d") for the day with ordinal n
strftime(n) ==
    IF n <= 1 THEN <<2024, 12, 30 + n>> ELSE <<2025, 1, n - 1>>

NoDate == <<>>

BadDateStr == <<2025, 2, 30>>

DateStrs == {strftime(n) : n \in Ordinals}

\* datetime.strptime(s, "%Y-%m-%d"): raises ValueError unless s is a date
strptime_raises(s) == s \notin DateStrs

strptime(s) == CHOOSE n \in Ordinals : strftime(n) = s

\* a <= b on "%Y-%m-%d" strings (Python str comparison)
StrLE(a, b) ==
    \/ a[1] < b[1]
    \/ a[1] = b[1] /\ a[2] < b[2]
    \/ a[1] = b[1] /\ a[2] = b[2] /\ a[3] <= b[3]

(* ---------------------------- Task / Sprint ---------------------------- *)
\* A status is the sequence of its characters: "Done" is <<"D", "o", "n", "e">>
UpperCase ==
    <<"A", "B", "C", "D", "E", "F", "G", "H", "I", "J", "K", "L", "M",
      "N", "O", "P", "Q", "R", "S", "T", "U", "V", "W", "X", "Y", "Z">>

LowerCase ==
    <<"a", "b", "c", "d", "e", "f", "g", "h", "i", "j", "k", "l", "m",
      "n", "o", "p", "q", "r", "s", "t", "u", "v", "w", "x", "y", "z">>

UpperCaseLetters == {UpperCase[k] : k \in 1..26}

to_lower ==
    [c \in UpperCaseLetters |-> LowerCase[CHOOSE k \in 1..26 : UpperCase[k] = c]]

LowerChar(c) == IF c \in UpperCaseLetters THEN to_lower[c] ELSE c

\* str.lower(), on ASCII text
Lower(s) == [k \in 1..Len(s) |-> LowerChar(s[k])]

done == <<"d", "o", "n", "e">>

complete == <<"c", "o", "m", "p", "l", "e", "t", "e">>

completed == <<"c", "o", "m", "p", "l", "e", "t", "e", "d">>

\* self.status.lower() in ("done", "complete", "completed")
is_complete(task) == Lower(task.status) \in {done, complete, completed}

\* int + float is float: the sum is a float as soon as one weight is
IsFloat(w) == w % 10 # 0

total_is_float(sp) == \E k \in 1..Len(sp.tasks) : IsFloat(sp.tasks[k].story_points)

\* sum(...) of story points as Python computes it: 0 + w1 + w2 + ...
RECURSIVE sum(_)
sum(tasks) ==
    IF tasks = <<>> THEN <<0, 0, 0>>
    ELSE LET n == Len(tasks)
         IN  fl_add(sum(SubSeq(tasks, 1, n - 1)), number(tasks[n].story_points))

\* sum(t.story_points for t in self.tasks)
total_points(sp) == sum(sp.tasks)

\* sum(t.story_points for t in self.tasks if t.is_complete)
completed_points(sp) == sum(SelectSeq(sp.tasks, is_complete))

\* self.total_points - self.completed_points
remaining_points(sp) == fl_sub(total_points(sp), completed_points(sp))

\* the value of a number that is an int, in tenths
int_tenths(x) == x[1]

duration_days(sp) == sp.end_date - sp.start_date

NoSprint == [constructed |-> FALSE, id |-> 0, start_date |-> 0, end_date |-> 0,
             goals_none |-> FALSE, tasks |-> <<>>]

\* parse_sprint_yaml raises exactly when a date string does not parse
parse_raises(data) ==
    strptime_raises(data.start_date) \/ strptime_raises(data.end_date)

\* the file's position in the batch stands for its path (and the default id)
parse_sprint_yaml(filepath, data) ==
    [constructed |-> TRUE,
     id |-> filepath,
     start_date |-> strptime(data.start_date),
     end_date |-> strptime(data.end_date),
     goals_none |-> data.goals_none,
     tasks |-> data.tasks]

(* ---------------------------- burndown calculators --------------------- *)
\* round(n/d, 1 decimal) on tenths = n/d rounded to an integer, ties to even
RoundHalfEven(n, d) ==
    LET q == n \div d
        r == n % d
    IN  IF 2 * r < d THEN q
        ELSE IF 2 * r > d THEN q + 1
        ELSE IF q % 2 = 0 THEN q ELSE q + 1

\* total - (total * day / days) over the denominator days: the product,
\* the quotient and the difference are each rounded to a double
fl_times(a, k) == round_double(FBits, a[1] * k, a[2] * k, a[3] * k, 1)

fl_over(a, d) == round_double(FBits, a[1], a[2], a[3], d)

linear_remaining(total, day, days) ==
    Bind(<<total, fl_over(fl_times(total, day), days)>>,
         LAMBDA p : round_double(FBits, p[1][1] * days - p[2][1],
                                 p[1][2] * days - p[2][2],
                                 p[1][3] * days - p[2][3], days))

\* round(x, 1) of the number x over d: the nearest tenth of the double; the
\* residue decides when n/d lies halfway, an exact half goes to the even tenth
\* (a number without tenths rounds to 0.0)
round1(x, d) ==
    Bind(x, LAMBDA v : IF 2 * (v[1] % d) = d /\ v[2] # 0
                       THEN IF v[2] > 0 THEN (v[1] \div d) + 1 ELSE v[1] \div d
                       ELSE RoundHalfEven(v[1], d))

\* mutant: a zero-length sprint keeps the total
ideal_remaining_keeps_total(total, day, days) ==
    IF days > 0 THEN round1(linear_remaining(total, day, days), days) ELSE total[1]

\* remaining = total - (total * day / days) if days > 0 else 0, then round(_, 1)
ideal_remaining(total, day, days) ==
    IF days > 0 THEN round1(linear_remaining(total, day, days), days) ELSE 0

ideal_points(sp, total, days) ==
    IF days < 0 THEN <<>>
    ELSE [k \in 1..(days + 1) |->
            [day |-> k - 1,
             date |-> strftime(sp.start_date + (k - 1)),
             remaining |-> ideal_remaining(total, k - 1, days)]]

calculate_ideal_burndown(sp) ==
    Bind(total_points(sp), LAMBDA total : ideal_points(sp, total, duration_days(sp)))

\* a task enters completions_by_date iff it is complete and its date is truthy
Counts(task) == is_complete(task) /\ task.completed_date # NoDate

\* mutant: a later task on the same date overwrites the earlier ones
AddCompletion_overwrite(old, points) == points

\* completions_by_date[date] = completions_by_date.get(date, 0) + story_points
AddCompletion(old, points) == fl_add(old, points)

EmptyDict == [d \in {} |-> <<0, 0, 0>>]

RECURSIVE completions_by_date(_)
completions_by_date(tasks) ==
    IF tasks = <<>> THEN EmptyDict
    ELSE LET n == Len(tasks)
             task == tasks[n]
             prev == completions_by_date(SubSeq(tasks, 1, n - 1))
             date == task.completed_date
             old == IF date \in DOMAIN prev THEN prev[date] ELSE <<0, 0, 0>>
         IN  IF Counts(task)
             THEN [d \in (DOMAIN prev) \cup {date} |->
                     IF d = date THEN AddCompletion(old, number(task.story_points))
                     ELSE prev[d]]
             ELSE prev

\* the running "remaining" variable after the loop body of the given day
RECURSIVE running_remaining(_, _, _)
running_remaining(sp, cbd, day) ==
    IF day < 0 THEN total_points(sp)
    ELSE LET before == running_remaining(sp, cbd, day - 1)
             date_str == strftime(sp.start_date + day)
         IN  IF date_str \in DOMAIN cbd THEN fl_sub(before, cbd[date_str]) ELSE before

\* max(0, remaining)
clamped(remaining) ==
    Bind(remaining, LAMBDA r : IF fl_positive(r) THEN r ELSE <<0, 0, 0>>)

actual_point(sp, day, r) ==
    [day |-> day, date |-> strftime(sp.start_date + day),
     remaining |-> r[1], residue |-> r[2]]

actual_points(sp, cbd, days) ==
    IF days < 0 THEN <<>>
    ELSE [k \in 1..(days + 1) |->
            Bind(clamped(running_remaining(sp, cbd, k - 1)),
                 LAMBDA r : actual_point(sp, k - 1, r))]

calculate_actual_burndown(sp) ==
    Bind(completions_by_date(sp.tasks),
         LAMBDA cbd : actual_points(sp, cbd, duration_days(sp)))

(* ---------------------------- chart geometry --------------------------- *)
width == 600

height == 400

margin_top == 40

margin_right == 40

margin_bottom == 60

margin_left == 60

chart_width == width - margin_left - margin_right

chart_height == height - margin_top - margin_bottom

\* A pixel coordinate: the double num/den + residue * 2^-GBits / unit, with
\* num/den in lowest terms; residue 0 (unit 1) is the exact fraction.
Coord(n, e, d) ==
    IF e = 0 THEN [num |-> Frac(n, d)[1], den |-> Frac(n, d)[2], residue |-> 0, unit |-> 1]
    ELSE [num |-> Frac(n, d)[1], den |-> Frac(n, d)[2], residue |-> e, unit |-> d]

\* chart_width / max_days, over max_days
x_scale(max_days) == round_double(GBits, 10 * chart_width, 0, 0, max_days)

\* margin["left"] + day * x_scale, x_scale = chart_width / max_days if max_days > 0 else 0:
\* the quotient, the product and the sum are each rounded to a double
x_coordinate(day, max_days) ==
    IF max_days > 0
    THEN Bind(x_scale(max_days),
              LAMBDA xs :
                Bind(round_double(GBits, day * xs[1], day * xs[2], day * xs[3], max_days),
                     LAMBDA dx :
                       Bind(round_double(GBits, 10 * margin_left * max_days + dx[1],
                                         dx[2], dx[3], max_days),
                            LAMBDA x : Coord(x[1], x[2], 10 * max_days))))
    ELSE Coord(margin_left, 0, 1)

\* chart_height / max_points for max_points whole points, over max_points
y_scale(points) == round_double(GBits, 10 * chart_height, 0, 0, points)

\* max_points - remaining, remaining a number of a calculator: its residue
\* in units of 2^-GBits, what is left of it being smaller than a unit
drop(remaining, max_points) ==
    round_double(GBits, max_points - remaining[1],
                 0 - (remaining[2] \div 2^(FBits - GBits)),
                 0 - (remaining[2] % 2^(FBits - GBits)), 1)

\* drop * y_scale over 10 * points, the product of a number over 1 and a
\* number over points
scaled_drop(d, ys, points) ==
    round_double(GBits, d[1] * ys[1], d[1] * ys[2] + ys[1] * d[2],
                 d[2] * ys[2] + d[1] * ys[3] + ys[1] * d[3], 10 * points)

\* margin["top"] + (max_points - remaining) * y_scale,
\* y_scale = chart_height / max_points if max_points > 0 else 0,
\* max_points an int (in tenths): the quotient, the difference, the product
\* and the sum are each rounded to a double
y_coordinate(remaining, max_points) ==
    IF max_points > 0
    THEN Bind(<<max_points \div 10, drop(remaining, max_points)>>,
              LAMBDA a :
                Bind(scaled_drop(a[2], y_scale(a[1]), a[1]),
                     LAMBDA dy :
                       Bind(round_double(GBits, 100 * margin_top * a[1] + dy[1],
                                         dy[2], dy[3], 10 * a[1]),
                            LAMBDA y : Coord(y[1], y[2], 100 * a[1]))))
    ELSE Coord(margin_top, 0, 1)

\* The coordinates of the days and of the remaining points of the small
\* sprints, computed once; XCoord and YCoord look them up and compute any
\* other coordinate when it is asked for.
x_known == {<<day, max_days>> : day \in 0..MaxDay, max_days \in 1..MaxDay}

x_table == [a \in x_known |-> x_coordinate(a[1], a[2])]

y_known == UNION {{<<number(n), 10 * p>> : n \in 0..(10 * p)} : p \in 1..MaxPoints}

y_table == [a \in y_known |-> y_coordinate(a[1], a[2])]

XCoord(day, max_days) ==
    Bind(<<day, max_days>>,
         LAMBDA a : IF a \in x_known THEN x_table[a]
                    ELSE x_coordinate(a[1], a[2]))

YCoord(remaining, max_points) ==
    Bind(<<remaining, max_points>>,
         LAMBDA a : IF a \in y_known THEN y_table[a]
                    ELSE y_coordinate(a[1], a[2]))

\* p["remaining"] as the calculators return it: round(x, 1) in the ideal
\* series (a float, or the int 0 of a zero-length sprint), the running
\* total in the actual series
point_remaining(p) ==
    IF "residue" \in DOMAIN p THEN <<p.remaining, p.residue, 0>> ELSE number(p.remaining)

PathOf(points, max_days, max_points) ==
    [k \in 1..Len(points) |->
        [day |-> points[k].day,
         x |-> XCoord(points[k].day, max_days),
         y |-> YCoord(point_remaining(points[k]), max_points)]]

\* mutant: the day of "today" itself is dropped
Keep_strict(p, today) == StrLE(p.date, today) /\ p.date # today

\* [p for p in actual if p["date"] <= today]
Keep(p, today) == StrLE(p.date, today)

RECURSIVE actual_filtered(_, _)
actual_filtered(points, today) ==
    IF points = <<>> THEN <<>>
    ELSE LET rest == actual_filtered(Tail(points), today)
         IN  IF Keep(Head(points), today) THEN <<Head(points)>> \o rest ELSE rest

\* mutant: a tenth of the total instead of a fifth
YStep_tenth(max_points) == Max(1, max_points \div 10)

\* step = max(1, max_points // 5), max_points in whole points
YStep(max_points) == Max(1, max_points \div 5)

\* list(range(0, max_points + 1, step))
y_ticks(max_points) ==
    LET step == YStep(max_points)
    IN  IF max_points < 0 THEN <<>>
        ELSE [k \in 1..((max_points \div step) + 1) |-> (k - 1) * step]

NoSvg == [called |-> FALSE, raised |-> FALSE, file |-> 0, today |-> NoDate,
          ideal_path |-> <<>>, actual_path |-> <<>>, ticks |-> <<>>]

\* range() raises TypeError on a float bound, after the paths are built
svg_raises(sp) == total_is_float(sp)

generate_svg_chart(sp, id, ac, today) ==
    LET max_points == int_tenths(total_points(sp))
        max_days == duration_days(sp)
    IN  IF svg_raises(sp)
        THEN [NoSvg EXCEPT !.called = TRUE, !.raised = TRUE, !.today = today]
        ELSE [called |-> TRUE, raised |-> FALSE, file |-> 0, today |-> today,
              ideal_path |-> PathOf(id, max_days, max_points),
              actual_path |-> PathOf(actual_filtered(ac, today), max_days, max_points),
              ticks |-> y_ticks(max_points \div 10)]

NoMd == [called |-> FALSE, raised |-> FALSE, file |-> 0, today |-> NoDate,
         rows |-> <<>>]

\* "for goal in sprint.goals" raises TypeError when goals is None
md_raises(sp) == sp.goals_none

\* actual[i]["remaining"] if i < len(actual) and actual[i]["date"] <= today else "-"
ActualCell(ac, k, today) ==
    IF k <= Len(ac) /\ StrLE(ac[k].date, today)
    THEN [shown |-> TRUE, value |-> ac[k].remaining, residue |-> ac[k].residue]
    ELSE [shown |-> FALSE, value |-> 0, residue |-> 0]

\* one row per ideal point
burndown_rows(id, ac, today) ==
    [k \in 1..Len(id) |->
        [day |-> id[k].day, date |-> id[k].date, ideal |-> id[k].remaining,
         actual |-> ActualCell(ac, k, today)]]

generate_markdown_table(sp, today) ==
    IF md_raises(sp)
    THEN [NoMd EXCEPT !.called = TRUE, !.raised = TRUE, !.today = today]
    ELSE [called |-> TRUE, raised |-> FALSE, file |-> 0, today |-> today,
          rows |-> Bind(<<calculate_ideal_burndown(sp), calculate_actual_burndown(sp)>>,
                        LAMBDA s : burndown_rows(s[1], s[2], today))]

(* ---------------------------- inputs ----------------------------------- *)
\* the status strings of the input files
Done == <<"D", "o", "n", "e">>

DONE == <<"D", "O", "N", "E">>

Complete == <<"C", "o", "m", "p", "l", "e", "t", "e">>

pending == <<"p", "e", "n", "d", "i", "n", "g">>

Statuses == {DONE, pending}

\* -1, 0, 0.5, 1 and 2 story points
Weights == {0 - 10, 0, 5, 10, 20}

SprintStart == strftime(1)

EndDates == {strftime(n) : n \in 0..(MaxDuration + 1)}

Missing == [exists |-> FALSE, start_date |-> NoDate, end_date |-> NoDate,
            goals_none |-> FALSE, tasks |-> <<>>]

TaskData(S, W, D) == [status : S, story_points : W, completed_date : D]

SprintFiles(E, G, T) ==
    [exists : {TRUE}, start_date : {SprintStart}, end_date : E,
     goals_none : G, tasks : T]

BadDateFile ==
    [exists |-> TRUE, start_date |-> BadDateStr, end_date |-> SprintStart,
     goals_none |-> FALSE, tasks |-> <<>>]

\* completion dates: none, the day before the start, the first two days
CompletionDates == {NoDate} \cup {strftime(n) : n \in 0..2}

\* complete tasks with every weight and date, open tasks with every weight,
\* undated or dated
CalcTasks ==
    TaskData({Done}, Weights, CompletionDates)
    \cup TaskData({pending}, Weights, {NoDate, strftime(2)})

\* tasks of 0.1 and 0.2 points, which no double holds exactly, and of 1 point
FloatTasks ==
    TaskData({Done}, {1, 2, 10}, {NoDate, strftime(1), strftime(2)})
    \cup TaskData({pending}, {1, 2}, {NoDate})

CalcFiles ==
    SprintFiles(EndDates, {FALSE}, SeqsUpTo(CalcTasks, MaxTasks))
    \cup SprintFiles(EndDates, {FALSE}, SeqsUpTo(FloatTasks, MaxTasks))
    \cup {Missing, BadDateFile}

\* one completed task of 0..MaxPoints points, for the axis, and one of 73
\* points, the first total whose scale 300 / total does not multiply back
AxisFiles ==
    SprintFiles({strftime(2)}, {FALSE},
                {<<t>> : t \in TaskData({Complete},
                                        {10 * p : p \in (0..MaxPoints) \cup {73}},
                                        {strftime(2)})})

RenderFiles ==
    SprintFiles(EndDates, {FALSE},
                SeqsUpTo(TaskData(Statuses, {0 - 10, 10},
                                  {NoDate, strftime(1), strftime(2)}), MaxTasks))
    \cup AxisFiles \cup {Missing, BadDateFile}

OneDone(w) == <<[status |-> Done, story_points |-> w, completed_date |-> strftime(2)]>>

\* a clean sprint, a float weight, null goals, end before start, a bad date
BatchFiles ==
    SprintFiles({strftime(3)}, {FALSE}, {OneDone(10), OneDone(5)})
    \cup SprintFiles({strftime(3)}, {TRUE}, {OneDone(10)})
    \cup SprintFiles({strftime(0)}, {FALSE}, {OneDone(10)})
    \cup {Missing, BadDateFile}

Formats == {"svg", "md", "both"}

(* ---------------------------- check_benchmarks.py ---------------------- *)
\* the gate table: max_ms and target_ms of each gated benchmark
PERFORMANCE_GATES ==
    ("BenchmarkTUIStartup" :> [max_ms |-> 500, target_ms |-> 200])
    @@ ("BenchmarkListDownloads" :> [max_ms |-> 100, target_ms |-> 50])
    @@ ("BenchmarkQueueList" :> [max_ms |-> 100, target_ms |-> 50])
    @@ ("BenchmarkStateLoad" :> [max_ms |-> 50, target_ms |-> 20])
    @@ ("BenchmarkStateSave" :> [max_ms |-> 100, target_ms |-> 50])
    @@ ("BenchmarkChecksumSHA256" :> [max_ms |-> 1000, target_ms |-> 500])
    @@ ("BenchmarkChecksumMD5" :> [max_ms |-> 500, target_ms |-> 250])

\* PERFORMANCE_GATES.get(name) is not None
HasGate(name) == name \in DOMAIN PERFORMANCE_GATES

\* ns_per_op / 1_000_000, as the exact fraction (ns_per_op in whole ns)
ms_per_op(result) == <<result.ns_per_op, 1000000>>

\* ms <= limit for an integer limit; the float quotient compares alike
AtMost(ms, limit) == ms[1] <= limit * ms[2]

\* mutant: a result exactly at max_ms fails the gate
gate_passed_strict(result, gate) ==
    AtMost(ms_per_op(result), gate.max_ms)
    /\ ms_per_op(result)[1] # gate.max_ms * ms_per_op(result)[2]

\* gate_passed = result.ms_per_op <= gate["max_ms"]
gate_passed(result, gate) == AtMost(ms_per_op(result), gate.max_ms)

\* target_met = result.ms_per_op <= gate["target_ms"]
target_met(result, gate) == AtMost(ms_per_op(result), gate.target_ms)

\* Python's True, False and None in the entries of report["results"]
PyBool(b) == IF b THEN "True" ELSE "False"

NoReport ==
    [built |-> FALSE, passed |-> TRUE, total_benchmarks |-> 0,
     gated_benchmarks |-> 0, gates_passed |-> 0, gates_failed |-> 0,
     targets_met |-> 0, results |-> <<>>]

\* the report dict check_gates starts from
new_report(rs) == [NoReport EXCEPT !.built = TRUE, !.total_benchmarks = Len(rs)]

\* the entry appended for a gated result (max_ms, target_ms of its gate)
gated_entry(result, gate) ==
    [name |-> result.name, max_ms |-> gate.max_ms, target_ms |-> gate.target_ms,
     gate_passed |-> PyBool(gate_passed(result, gate)),
     target_met |-> PyBool(target_met(result, gate))]

\* the entry appended for a result without a gate (no max_ms, no target_ms)
ungated_entry(result) ==
    [name |-> result.name, max_ms |-> 0, target_ms |-> 0,
     gate_passed |-> "None", target_met |-> "None"]

\* the "if gate:" branch of the loop body
count_gated(rep, result, gate) ==
    [rep EXCEPT
        !.gated_benchmarks = @ + 1,
        !.gates_passed = IF gate_passed(result, gate) THEN @ + 1 ELSE @,
        !.gates_failed = IF gate_passed(result, gate) THEN @ ELSE @ + 1,
        !.passed = IF gate_passed(result, gate) THEN @ ELSE FALSE,
        !.targets_met = IF target_met(result, gate) THEN @ + 1 ELSE @,
        !.results = Append(@, gated_entry(result, gate))]

\* one pass of "for result in results:" in check_gates
check_result(rep, result) ==
    IF HasGate(result.name)
    THEN count_gated(rep, result, PERFORMANCE_GATES[result.name])
    ELSE [rep EXCEPT !.results = Append(@, ungated_entry(result))]

\* The input is the sequence of its tokens, the pieces between whitespace.
\* A token is a benchmark name (Benchmark\w+, with or without -N), a run of
\* digits, a run of digits and dots that float() rejects, text that starts
\* with ns/op, or other text; bol tells that it stands at the very start of
\* a line.  The value of a run of digits is kept in ns_per_op.
Token(kind, name, ns, bol) == [kind |-> kind, name |-> name, ns_per_op |-> ns, bol |-> bol]

\* BENCHMARK_PATTERN matches from token k on: ^ needs the name at the start
\* of a line, each \s+ spans blanks and newlines alike
Matches(text, k) ==
    /\ k + 3 <= Len(text)
    /\ text[k].kind = "name" /\ text[k].bol
    /\ text[k + 1].kind = "int"
    /\ text[k + 2].kind \in {"int", "badnum"}
    /\ text[k + 3].kind = "ns/op"

\* the matches of finditer, by their first token, in order
matches(text) ==
    LET IsStart(k) == Matches(text, k)
    IN  SelectSeq([k \in 1..Len(text) |-> k], IsStart)

BenchmarkResult(name, ns) == [name |-> name.name, ns_per_op |-> ns.ns_per_op]

\* not content.strip()
is_blank(text) == text = <<>>

\* float(match.group(3)) raises ValueError
float_raises(text) ==
    \E k \in 1..Len(text) : Matches(text, k) /\ text[k + 2].kind = "badnum"

parse_benchmark_output(text) ==
    LET found == matches(text)
    IN  [k \in 1..Len(found) |-> BenchmarkResult(text[found[k]], text[found[k] + 2])]

\* the names of the failed gates, as print_report lists them
failed_gates(rep) ==
    LET IsFailed(entry) == entry.gate_passed = "False"
        failed == SelectSeq(rep.results, IsFailed)
    IN  [k \in 1..Len(failed) |-> failed[k].name]

print_report(rep, output_format) ==
    [what |-> "report", format |-> output_format, passed |-> rep.passed,
     failed |-> failed_gates(rep)]

Message(what) == [what |-> what, format |-> "text", passed |-> FALSE, failed |-> <<>>]

NoExit == 0 - 1

\* benchmark lines of every gate at and just above target_ms and max_ms
GateTimes(gate) ==
    {1000000 * gate.target_ms, 1000000 * gate.target_ms + 1,
     1000000 * gate.max_ms, 1000000 * gate.max_ms + 1}

Name(name, bol) == Token("name", name, 0, bol)

Digits(ns, bol) == Token("int", "", ns, bol)

NsOp == Token("ns/op", "", 0, FALSE)

\* "BenchmarkName-8   10   ns ns/op" on one line
BenchLine(name, ns) == <<Name(name, TRUE), Digits(10, FALSE), Digits(ns, FALSE), NsOp>>

GatedLines ==
    UNION {{BenchLine(name, ns) : ns \in GateTimes(PERFORMANCE_GATES[name])} :
              name \in DOMAIN PERFORMANCE_GATES}

\* a line with the benchmark name alone, a line with the numbers alone
NameLine(name) == <<Name(name, TRUE)>>

NumbersLine(ns) == <<Digits(10, TRUE), Digits(ns, FALSE), NsOp>>

\* a benchmark line after leading blanks, which ^ does not match
IndentedLine(name, ns) ==
    <<Name(name, FALSE), Digits(10, FALSE), Digits(ns, FALSE), NsOp>>

TextLine == <<Token("text", "", 0, TRUE)>>

BadNumberLine ==
    <<Name("BenchmarkOther", TRUE), Digits(10, FALSE), Token("badnum", "", 0, FALSE), NsOp>>

\* the lines of the input: a blank line has no token
Lines ==
    GatedLines
    \cup {BenchLine("BenchmarkOther", 2000000000)}
    \cup {NameLine("BenchmarkStateLoad"), NumbersLine(60000000)}
    \cup {IndentedLine("BenchmarkStateLoad", 60000000)}
    \cup {<<>>, TextLine, BadNumberLine}

\* the tokens of the lines, in order
RECURSIVE Tokens(_)
Tokens(lines) == IF lines = <<>> THEN <<>> ELSE Head(lines) \o Tokens(Tail(lines))

\* the inputs: up to MaxLines lines
Contents == {Tokens(lines) : lines \in SeqsUpTo(Lines, MaxLines)}

\* --help, --json and the input: a pipe on stdin, a terminal on stdin, a
\* file, or a file that is not there
Argvs == [help : BOOLEAN, json : BOOLEAN, input : {"stdin", "tty", "file", "missing"}]

\* check_benchmarks.py is not running
BenchmarkIdle ==
    /\ argv = [help |-> FALSE, json |-> FALSE, input |-> "stdin"]
    /\ content = <<>>
    /\ bpc = "idle"
    /\ results = <<>>
    /\ report = NoReport
    /\ printed = <<>>
    /\ rc = NoExit

(* ---------------------------- main() ----------------------------------- *)
InitLocals ==
    /\ i = 1
    /\ pc = "loop"
    /\ sprint = NoSprint
    /\ ideal = <<>>
    /\ actual = <<>>
    /\ svg = NoSvg
    /\ md = NoMd
    /\ out = <<>>
    /\ log = <<>>

\* a batch of files, any format
Init ==
    /\ files \in SeqsUpTo(BatchFiles, MaxFiles) \ {<<>>}
    /\ fmt \in Formats
    /\ clock = 2
    /\ InitLocals
    /\ BenchmarkIdle

\* one file, both formats, rendered after the window
InitCalc ==
    /\ files \in {<<f>> : f \in CalcFiles}
    /\ fmt = "both"
    /\ clock = MaxDay
    /\ InitLocals
    /\ BenchmarkIdle

\* one file, both formats, rendered at any moment
InitRender ==
    /\ files \in {<<f>> : f \in RenderFiles}
    /\ fmt = "both"
    /\ clock \in Ordinals
    /\ InitLocals
    /\ BenchmarkIdle

\* mutant: the except clause leaves the loop
after_error_break(idx, n) == n + 1

\* "continue" in the except clause: on to the next file
after_error(idx, n) == idx + 1

\* the output of a renderer that returned is written or printed
Emitted(r, kind) ==
    IF r.called /\ ~r.raised THEN <<[file |-> r.file, kind |-> kind]>> ELSE <<>>

\* if not filepath.exists(): warning, continue
SkipMissing ==
    /\ pc = "loop"
    /\ i <= Len(files)
    /\ ~files[i].exists
    /\ log' = Append(log, [file |-> i, kind |-> "warning"])
    /\ i' = i + 1
    /\ UNCHANGED <<files, fmt, pc, clock, sprint, ideal, actual, svg, md, out>>
    /\ UNCHANGED benchmark_vars

\* parse_sprint_yaml raises: the except clause reports it
ParseError ==
    /\ pc = "loop"
    /\ i <= Len(files)
    /\ files[i].exists
    /\ parse_raises(files[i])
    /\ log' = Append(log, [file |-> i, kind |-> "error"])
    /\ i' = after_error(i, Len(files))
    /\ UNCHANGED <<files, fmt, pc, clock, sprint, ideal, actual, svg, md, out>>
    /\ UNCHANGED benchmark_vars

\* sprint = parse_sprint_yaml(str(filepath))
Parse ==
    /\ pc = "loop"
    /\ i <= Len(files)
    /\ files[i].exists
    /\ ~parse_raises(files[i])
    /\ sprint' = parse_sprint_yaml(i, files[i])
    /\ pc' = "ideal"
    /\ UNCHANGED <<files, fmt, i, clock, ideal, actual, svg, md, out, log>>
    /\ UNCHANGED benchmark_vars

\* ideal = calculate_ideal_burndown(sprint)
CalcIdeal ==
    /\ pc = "ideal"
    /\ ideal' = calculate_ideal_burndown(sprint)
    /\ pc' = "actual"
    /\ UNCHANGED <<files, fmt, i, clock, sprint, actual, svg, md, out, log>>
    /\ UNCHANGED benchmark_vars

\* actual = calculate_actual_burndown(sprint)
CalcActual ==
    /\ pc = "actual"
    /\ actual' = calculate_actual_burndown(sprint)
    /\ pc' = "svg"
    /\ UNCHANGED <<files, fmt, i, clock, sprint, ideal, svg, md, out, log>>
    /\ UNCHANGED benchmark_vars

\* if args.format in ("svg", "both"): emit generate_svg_chart(...)
RenderSvg ==
    /\ pc = "svg"
    /\ IF fmt \in {"svg", "both"}
       THEN \E t \in Ordinals :
              /\ clock <= t
              /\ clock' = t
              /\ svg' = [generate_svg_chart(sprint, ideal, actual, strftime(t))
                           EXCEPT !.file = i]
              /\ out' = out \o Emitted(svg', "svg")
              /\ IF svg'.raised
                 THEN /\ log' = Append(log, [file |-> i, kind |-> "error"])
                      /\ i' = after_error(i, Len(files))
                      /\ pc' = "loop"
                 ELSE /\ pc' = "md"
                      /\ UNCHANGED <<i, log>>
       ELSE /\ pc' = "md"
            /\ UNCHANGED <<i, clock, svg, out, log>>
    /\ UNCHANGED <<files, fmt, sprint, ideal, actual, md>>
    /\ UNCHANGED benchmark_vars

\* if args.format in ("md", "both"): emit generate_markdown_table(sprint)
RenderMd ==
    /\ pc = "md"
    /\ IF fmt \in {"md", "both"}
       THEN \E t \in Ordinals :
              /\ clock <= t
              /\ clock' = t
              /\ md' = [generate_markdown_table(sprint, strftime(t))
                          EXCEPT !.file = i]
              /\ out' = out \o Emitted(md', "md")
              /\ IF md'.raised
                 THEN /\ log' = Append(log, [file |-> i, kind |-> "error"])
                      /\ i' = after_error(i, Len(files))
                 ELSE /\ i' = i + 1
                      /\ UNCHANGED log
       ELSE /\ i' = i + 1
            /\ UNCHANGED <<clock, md, out, log>>
    /\ pc' = "loop"
    /\ UNCHANGED <<files, fmt, sprint, ideal, actual, svg>>
    /\ UNCHANGED benchmark_vars

\* the loop is exhausted: return 0
Return ==
    /\ pc = "loop"
    /\ i > Len(files)
    /\ pc' = "done"
    /\ UNCHANGED <<files, fmt, i, clock, sprint, ideal, actual, svg, md, out, log>>
    /\ UNCHANGED benchmark_vars

Next ==
    \/ SkipMissing
    \/ ParseError
    \/ Parse
    \/ CalcIdeal
    \/ CalcActual
    \/ RenderSvg
    \/ RenderMd
    \/ Return

Spec == Init /\ [][Next]_vars

CalcSpec == InitCalc /\ [][Next]_vars

RenderSpec == InitRender /\ [][Next]_vars

\* the interpreter keeps executing the loop until main returns
FairSpec == Init /\ [][Next]_vars /\ WF_vars(Next)

TypeOK ==
    /\ pc \in {"loop", "ideal", "actual", "svg", "md", "done"}
    /\ i \in 1..(Len(files) + 1)

(* ---------------------------- check_benchmarks.py main() ------------- *)
\* generate_burndown.py is not running
BurndownIdle ==
    /\ files = <<>>
    /\ fmt = "both"
    /\ clock = 0
    /\ InitLocals

InitBenchmarks ==
    /\ argv \in Argvs
    /\ content \in IF argv.input = "missing" THEN {<<>>} ELSE Contents
    /\ bpc = "start"
    /\ results = <<>>
    /\ report = NoReport
    /\ printed = <<>>
    /\ rc = NoExit
    /\ BurndownIdle

\* return from main (or the interpreter's exit after an uncaught exception)
Exit(code, what) ==
    /\ rc' = code
    /\ printed' = Append(printed, what)
    /\ bpc' = "done"

OutputFormat == IF argv.json THEN "json" ELSE "text"

\* --help: print(__doc__); return 0
ShowHelp ==
    /\ bpc = "start"
    /\ argv.help
    /\ Exit(0, Message("doc"))
    /\ UNCHANGED <<argv, content, results, report>>
    /\ UNCHANGED burndown_vars

\* if sys.stdin.isatty(): print("Reading from stdin... (Ctrl+D to end)")
Prompt == IF argv.input = "tty" THEN <<Message("reading from stdin")>> ELSE <<>>

\* the file or stdin is read into content, after the prompt on a terminal
ReadInput ==
    /\ bpc = "start"
    /\ ~argv.help
    /\ argv.input # "missing"
    /\ printed' = printed \o Prompt
    /\ bpc' = "read"
    /\ UNCHANGED <<argv, content, results, report, rc>>
    /\ UNCHANGED burndown_vars

\* except FileNotFoundError: return 1
FileNotFound ==
    /\ bpc = "start"
    /\ ~argv.help
    /\ argv.input = "missing"
    /\ Exit(1, Message("file not found"))
    /\ UNCHANGED <<argv, content, results, report>>
    /\ UNCHANGED burndown_vars

\* if not content.strip(): return 1
NoData ==
    /\ bpc = "read"
    /\ is_blank(content)
    /\ Exit(1, Message("no data"))
    /\ UNCHANGED <<argv, content, results, report>>
    /\ UNCHANGED burndown_vars

\* parse_benchmark_output raises ValueError: traceback, exit status 1
ParseRaises ==
    /\ bpc = "read"
    /\ ~is_blank(content)
    /\ float_raises(content)
    /\ Exit(1, Message("traceback"))
    /\ UNCHANGED <<argv, content, results, report>>
    /\ UNCHANGED burndown_vars

\* results = parse_benchmark_output(content)
ParseOutput ==
    /\ bpc = "read"
    /\ ~is_blank(content)
    /\ ~float_raises(content)
    /\ results' = parse_benchmark_output(content)
    /\ bpc' = "parsed"
    /\ UNCHANGED <<argv, content, report, printed, rc>>
    /\ UNCHANGED burndown_vars

\* if not results: warning, return 1
NoResults ==
    /\ bpc = "parsed"
    /\ results = <<>>
    /\ Exit(1, Message("no results"))
    /\ UNCHANGED <<argv, content, results, report>>
    /\ UNCHANGED burndown_vars

\* check_gates is entered: the report dict is built
StartGates ==
    /\ bpc = "parsed"
    /\ results # <<>>
    /\ report' = new_report(results)
    /\ bpc' = "check"
    /\ UNCHANGED <<argv, content, results, printed, rc>>
    /\ UNCHANGED burndown_vars

\* one pass of the loop of check_gates
CheckOne ==
    /\ bpc = "check"
    /\ Len(report.results) < Len(results)
    /\ report' = check_result(report, results[Len(report.results) + 1])
    /\ UNCHANGED <<argv, content, bpc, results, printed, rc>>
    /\ UNCHANGED burndown_vars

\* print_report(report, output_format); return 0 if report["passed"] else 1
ReportAndExit ==
    /\ bpc = "check"
    /\ Len(report.results) = Len(results)
    /\ Exit(IF report.passed THEN 0 ELSE 1, print_report(report, OutputFormat))
    /\ UNCHANGED <<argv, content, results, report>>
    /\ UNCHANGED burndown_vars

BenchmarkNext ==
    \/ ShowHelp
    \/ FileNotFound
    \/ ReadInput
    \/ NoData
    \/ ParseRaises
    \/ ParseOutput
    \/ NoResults
    \/ StartGates
    \/ CheckOne
    \/ ReportAndExit

BenchmarkSpec == InitBenchmarks /\ [][BenchmarkNext]_vars

(* ---------------------------- properties ------------------------------- *)
Range(s) == {s[k] : k \in 1..Len(s)}

NonIncreasing(series) ==
    \A k \in 2..Len(series) : series[k].remaining <= series[k - 1].remaining

\* the data model's sprint: end not before start, weights positive integers
ValidWeight(w) == w > 0 /\ w % 10 = 0

ValidSprint(sp) ==
    /\ sp.constructed
    /\ sp.end_date >= sp.start_date
    /\ \A k \in 1..Len(sp.tasks) : ValidWeight(sp.tasks[k].story_points)

\* the series variable holds the result for the current sprint
IdealReady == sprint.constructed /\ pc # "ideal"

ActualReady == sprint.constructed /\ pc \notin {"ideal", "actual"}

\* the last chart / table returned, and belongs to the current sprint
SvgRendered == ActualReady /\ svg.called /\ ~svg.raised /\ svg.file = sprint.id

MdRendered == ActualReady /\ md.called /\ ~md.raised /\ md.file = sprint.id

\* C1: the actual series is non-increasing in day index and never below 0,
\* whatever the statuses, weights and completion dates of the tasks.
C1_ActualNonIncreasing ==
    ActualReady =>
        /\ NonIncreasing(actual)
        /\ \A k \in 1..Len(actual) : actual[k].remaining >= 0

\* C2: no Sprint is constructed, and no series computed, from an input whose
\* end date is before its start date or that has a task whose weight is not
\* a positive integer.
C2_InvalidInputRejected ==
    sprint.constructed => ValidSprint(sprint)

\* C3: with both formats selected, a renderer that raises does not stop the
\* other one: the other is run for the same file and its output is emitted.
C3_RenderersIndependent ==
    fmt = "both" =>
        /\ (svg.raised =>
              /\ md.called /\ md.file = svg.file
              /\ (~md.raised => [file |-> svg.file, kind |-> "md"] \in Range(out)))
        /\ (md.raised => [file |-> md.file, kind |-> "svg"] \in Range(out))

WantsSvg == fmt \in {"svg", "both"}

WantsMd == fmt \in {"md", "both"}

\* file k exists and nothing in its own processing raises
Clean(k) ==
    /\ files[k].exists
    /\ ~parse_raises(files[k])
    /\ WantsSvg => ~svg_raises(parse_sprint_yaml(k, files[k]))
    /\ WantsMd => ~md_raises(parse_sprint_yaml(k, files[k]))

HasOutputs(k) ==
    /\ WantsSvg => [file |-> k, kind |-> "svg"] \in Range(out)
    /\ WantsMd => [file |-> k, kind |-> "md"] \in Range(out)

\* file k went through the try block: it left an output or an error message
Attempted(k) ==
    \/ \E o \in Range(out) : o.file = k
    \/ [file |-> k, kind |-> "error"] \in Range(log)

InListOrder(s) == \A a \in 1..Len(s), b \in 1..Len(s) : a < b => s[a].file <= s[b].file

BatchDone ==
    /\ pc = "done"
    /\ \A k \in 1..Len(files) : files[k].exists => Attempted(k)
    /\ InListOrder(out) /\ InListOrder(log)
    /\ \A k \in 1..Len(files) : Clean(k) => HasOutputs(k)

\* C4: a failure in one sprint never aborts the batch: main comes to its end
\* with every existing file attempted, in list order, and with the outputs of
\* every sprint that has no error of its own.
C4_BatchNeverAborted == <>BatchDone

\* C4 witness: a failed sprint is followed by a clean one that got its outputs
C4_Witness ==
    /\ pc = "done"
    /\ \E a \in 1..Len(files), b \in 1..Len(files) :
         /\ a < b
         /\ [file |-> a, kind |-> "error"] \in Range(log)
         /\ Clean(b) /\ HasOutputs(b)

\* C5: for duration > 0 the ideal series has duration+1 points, days
\* 0..duration, non-increasing, Sprint.total_points (the double the property
\* returns) at day 0 and 0 at the last day.
C5_IdealShape ==
    (IdealReady /\ duration_days(sprint) > 0) =>
        /\ Len(ideal) = duration_days(sprint) + 1
        /\ \A k \in 1..Len(ideal) : ideal[k].day = k - 1
        /\ NonIncreasing(ideal)
        /\ point_remaining(ideal[1]) = total_points(sprint)
        /\ ideal[Len(ideal)].remaining = 0

\* the same for the sprints of the data model (weights positive integers):
\* there the total is an int, day 0 reports it and the property holds
C5_HoldsOnIntegerWeights ==
    (IdealReady /\ ValidSprint(sprint) /\ duration_days(sprint) > 0) =>
        /\ Len(ideal) = duration_days(sprint) + 1
        /\ \A k \in 1..Len(ideal) : ideal[k].day = k - 1
        /\ NonIncreasing(ideal)
        /\ point_remaining(ideal[1]) = total_points(sprint)
        /\ ideal[Len(ideal)].remaining = 0

\* positive weights, and day 0 reports 0.3 where Sprint.total_points is
\* 0.1 + 0.2 = 0.30000000000000004
C5_RoundedTotal ==
    /\ IdealReady /\ duration_days(sprint) > 0
    /\ \A k \in 1..Len(sprint.tasks) : sprint.tasks[k].story_points > 0
    /\ ideal[1].remaining = 3
    /\ total_points(sprint) = <<3, 512, 0>>

\* C6: for duration = 0 the ideal series is the single point (day 0,
\* remaining 0), whatever the total (and computing it divides by nothing).
C6_ZeroDurationIdeal ==
    (IdealReady /\ duration_days(sprint) = 0) =>
        /\ Len(ideal) = 1
        /\ ideal[1].day = 0
        /\ ideal[1].remaining = 0

\* C6 witness: a one-day sprint with points in it went through the calculator
C6_Witness ==
    /\ IdealReady
    /\ duration_days(sprint) = 0
    /\ fl_positive(total_points(sprint))
    /\ Len(ideal) = 1

\* C7 as stated: for total >= 0 the chart has at most 6 y-axis ticks.
C7_AtMostSixTicks ==
    (SvgRendered /\ int_tenths(total_points(sprint)) >= 0) => Len(svg.ticks) <= 6

\* the ticks are the multiples of step = max(1, total // 5) in 0..total
TicksAreMultiples(total) ==
    LET step == IF total >= 5 THEN total \div 5 ELSE 1
    IN  /\ \A k \in 1..Len(svg.ticks) : svg.ticks[k] = (k - 1) * step
        /\ svg.ticks[Len(svg.ticks)] <= total
        /\ svg.ticks[Len(svg.ticks)] + step > total

\* C7 amended: for total >= 0 the ticks are the multiples of the step from 0
\* up to total and number at most 10; they number at most 6 when total <= 5
\* or total >= 25.
C7_AtMostTenTicks ==
    SvgRendered =>
        LET total == int_tenths(total_points(sprint))
        IN  total >= 0 =>
              /\ TicksAreMultiples(total \div 10)
              /\ Len(svg.ticks) <= 10
              /\ (total <= 50 \/ total >= 250) => Len(svg.ticks) <= 6

\* C7 witness: a chart of a 9-point sprint, with ten ticks
C7_Witness ==
    /\ SvgRendered
    /\ int_tenths(total_points(sprint)) = 90
    /\ Len(svg.ticks) = 10

Top == Coord(margin_top, 0, 1)

Bottom == Coord(margin_top + chart_height, 0, 1)

\* the series value behind a path point
PathRemaining(series, p) == series[p.day + 1].remaining

\* every path point whose remaining is r lies at height y
MapsTo(r, y) ==
    /\ \A p \in Range(svg.ideal_path) : PathRemaining(ideal, p) = r => p.y = y
    /\ \A p \in Range(svg.actual_path) : PathRemaining(actual, p) = r => p.y = y

\* C8 read to the letter: remaining = total maps to the top margin and
\* remaining = 0 to the top margin plus the plot height, for every sprint,
\* the sprint of total 0 included (where the two requirements collide).
C8_EndpointsExact ==
    SvgRendered =>
        /\ MapsTo(int_tenths(total_points(sprint)), Top)
        /\ MapsTo(0, Bottom)

\* C8, the sprint of total 0 read as section 4.3 reads it: remaining = total
\* maps to the top margin exactly for every sprint; remaining = 0 maps to
\* the top margin plus the plot height exactly when total > 0, and to the
\* top margin when the total is 0 or less (vertical scale 0).
C8_EndpointsByTotal ==
    SvgRendered =>
        /\ MapsTo(int_tenths(total_points(sprint)), Top)
        /\ MapsTo(0, IF int_tenths(total_points(sprint)) > 0 THEN Bottom ELSE Top)

\* the same for the totals 0..MaxPoints
C8_EndpointsBelow73 ==
    (SvgRendered /\ int_tenths(total_points(sprint)) <= 10 * MaxPoints) =>
        /\ MapsTo(int_tenths(total_points(sprint)), Top)
        /\ MapsTo(0, IF int_tenths(total_points(sprint)) > 0 THEN Bottom ELSE Top)

\* a chart whose ideal line runs from the top to the bottom edge
C8_Witness ==
    /\ SvgRendered
    /\ int_tenths(total_points(sprint)) > 0
    /\ Len(svg.ideal_path) >= 2
    /\ svg.ideal_path[1].y = Top
    /\ svg.ideal_path[Len(svg.ideal_path)].y = Bottom
    /\ \E p \in Range(svg.actual_path) : p.y = Bottom

\* the chart of 73 points: the end of the ideal line misses the bottom edge
C8_OffTheEdge ==
    /\ SvgRendered
    /\ int_tenths(total_points(sprint)) = 730
    /\ svg.ideal_path[Len(svg.ideal_path)].y # Bottom
    /\ svg.ideal_path[Len(svg.ideal_path)].y.num = margin_top + chart_height

\* the path shows the points of the series with these days, in day order
PathDays(path) == [k \in 1..Len(path) |-> path[k].day]

\* day d of the sprint is on or before the day the renderer read as today
OnOrBefore(d, today) == sprint.start_date + d <= strptime(today)

RECURSIVE DaysUpTo(_, _, _)
DaysUpTo(d, last, today) ==
    IF d > last THEN <<>>
    ELSE IF OnOrBefore(d, today) THEN <<d>> \o DaysUpTo(d + 1, last, today)
    ELSE DaysUpTo(d + 1, last, today)

FullLength ==
    IF duration_days(sprint) >= 0 THEN duration_days(sprint) + 1 ELSE 0

\* C9: the chart's actual path holds exactly the actual points dated on or
\* before the rendering day (none: no path), the table shows the actual
\* value of exactly those days and "-" for the others, and the ideal series
\* is always rendered in full.
C9_ActualTruncatedAtNow ==
    /\ SvgRendered =>
         /\ PathDays(svg.actual_path) = DaysUpTo(0, Len(actual) - 1, svg.today)
         /\ PathDays(svg.ideal_path) = [k \in 1..FullLength |-> k - 1]
    /\ MdRendered =>
         /\ Len(md.rows) = FullLength
         /\ \A k \in 1..Len(md.rows) :
              /\ md.rows[k].actual.shown <=> OnOrBefore(k - 1, md.today)
              /\ md.rows[k].actual.shown =>
                    md.rows[k].actual.value = actual[k].remaining
              /\ md.rows[k].ideal = ideal[k].remaining

\* C9 witness: both renderers ran in mid-sprint, some days shown, some not
C9_Witness ==
    /\ SvgRendered /\ MdRendered
    /\ Len(svg.actual_path) > 0
    /\ Len(svg.actual_path) < Len(actual)
    /\ Len(svg.ideal_path) = Len(ideal)
    /\ \E k \in 1..Len(md.rows) : md.rows[k].actual.shown
    /\ \E k \in 1..Len(md.rows) : ~md.rows[k].actual.shown

\* C9 witness of the omitted path: rendered before the sprint starts
C9_WitnessOmitted ==
    /\ SvgRendered
    /\ Len(actual) > 0
    /\ svg.actual_path = <<>>

\* the weight of a task if it is complete and dated within days 0..d
BurnedBy(task, d) ==
    IF /\ is_complete(task)
       /\ \E k \in 0..d : task.completed_date = strftime(sprint.start_date + k)
    THEN task.story_points ELSE 0

RECURSIVE BurnedUpTo(_, _)
BurnedUpTo(tasks, d) ==
    IF tasks = <<>> THEN 0
    ELSE BurnedBy(Head(tasks), d) + BurnedUpTo(Tail(tasks), d)

\* C10: for a validated sprint the actual value of day d is max(0, total
\* minus the weights of the tasks complete by status and dated on one of the
\* days 0..d); undated complete tasks and dated incomplete tasks count nothing.
C10_ActualIsTotalMinusBurned ==
    (ValidSprint(sprint) /\ ActualReady) =>
        /\ Len(actual) = duration_days(sprint) + 1
        /\ \A d \in 0..duration_days(sprint) :
              actual[d + 1].remaining =
                 Max(0, int_tenths(total_points(sprint)) - BurnedUpTo(sprint.tasks, d))

\* C10 witness: two complete tasks share a day inside the sprint
C10_Witness ==
    /\ ValidSprint(sprint)
    /\ ActualReady
    /\ Len(sprint.tasks) = 2
    /\ Counts(sprint.tasks[1]) /\ Counts(sprint.tasks[2])
    /\ sprint.tasks[1].completed_date = sprint.tasks[2].completed_date
    /\ \E k \in 2..Len(actual) :
         /\ actual[k].date = sprint.tasks[1].completed_date
         /\ actual[k].remaining < actual[k - 1].remaining

\* every task weight is positive
PositiveWeights(sp) == \A k \in 1..Len(sp.tasks) : sp.tasks[k].story_points > 0

\* the task's completion date is the date of one of the days 0..duration
DatedInRange(sp, task) ==
    \E d \in 0..duration_days(sp) : task.completed_date = strftime(sp.start_date + d)

\* every task that is complete by status is dated within the sprint
AllBurned(sp) ==
    \A k \in 1..Len(sp.tasks) :
        is_complete(sp.tasks[k]) => DatedInRange(sp, sp.tasks[k])

\* the value of a series point, with its residue
PointValue(p) == <<p.remaining, p.residue, 0>>

\* no point is below remaining_points; the last point equals it exactly
\* when every complete task is dated within the sprint
EndsAtRemaining(sp, series) ==
    /\ \A k \in 1..Len(series) :
          fl_le(remaining_points(sp), PointValue(series[k]))
    /\ Len(series) > 0 =>
          (PointValue(series[Len(series)]) = remaining_points(sp) <=> AllBurned(sp))

\* C11: for every sprint whose task weights are all positive, every point of
\* the actual series is at least Sprint.remaining_points, and the last point
\* (of a sprint of at least one day) equals remaining_points if and only if
\* every task complete by status has a completion date within [start, end].
C11_ActualEndsAtRemaining ==
    (ActualReady /\ PositiveWeights(sprint)) => EndsAtRemaining(sprint, actual)

\* the same for the sprints of the data model (weights positive integers):
\* there the arithmetic is exact and the property holds
C11_HoldsOnIntegerWeights ==
    (ActualReady /\ ValidSprint(sprint)) => EndsAtRemaining(sprint, actual)

\* a validated sprint with a complete task that is never subtracted: the
\* curve ends above the reported remaining work
C11_EndsAbove ==
    /\ ActualReady /\ ValidSprint(sprint)
    /\ ~AllBurned(sprint)
    /\ Len(actual) > 0
    /\ actual[Len(actual)].remaining > int_tenths(remaining_points(sprint))

\* every complete task is dated in range, the weights are positive, and the
\* curve still ends a rounding residue above remaining_points
C11_EndsOnResidue ==
    /\ ActualReady /\ PositiveWeights(sprint)
    /\ AllBurned(sprint)
    /\ Len(actual) > 0
    /\ actual[Len(actual)].remaining = 0
    /\ actual[Len(actual)].residue > 0
    /\ remaining_points(sprint) = <<0, 0, 0>>

\* the results check_gates has been through
Processed == SubSeq(results, 1, Len(report.results))

\* a result with a gate, one above its gate's max_ms, one within target_ms
IsGated(result) == HasGate(result.name)

Exceeds(result) ==
    /\ HasGate(result.name)
    /\ ms_per_op(result)[1] > PERFORMANCE_GATES[result.name].max_ms * ms_per_op(result)[2]

WithinTarget(result) ==
    /\ HasGate(result.name)
    /\ ms_per_op(result)[1] <= PERFORMANCE_GATES[result.name].target_ms * ms_per_op(result)[2]

HowMany(Test(_), rs) == Len(SelectSeq(rs, Test))

NoneExceeds(rs) == \A k \in 1..Len(rs) : ~Exceeds(rs[k])

\* the counters agree with each other and with the processed prefix; they
\* count gated results only, so a result without a gate changes none of them
ReportConsistent ==
    report.built =>
        /\ report.gates_passed + report.gates_failed = report.gated_benchmarks
        /\ report.gated_benchmarks <= report.total_benchmarks
        /\ report.targets_met <= report.gates_passed
        /\ \A g \in DOMAIN PERFORMANCE_GATES :
              PERFORMANCE_GATES[g].target_ms <= PERFORMANCE_GATES[g].max_ms
        /\ report.passed <=> report.gates_failed = 0
        /\ report.passed <=> NoneExceeds(Processed)
        /\ report.total_benchmarks = Len(results)
        /\ report.gated_benchmarks = HowMany(IsGated, Processed)
        /\ report.gates_failed = HowMany(Exceeds, Processed)
        /\ report.targets_met = HowMany(WithinTarget, Processed)

\* main has returned after parsing the input into the list of results
ExitedAfterParsing ==
    /\ bpc = "done"
    /\ printed[Len(printed)].what \in {"no results", "report"}

\* C12 as stated: after any prefix the report's counters are consistent,
\* passed holds iff no gated result exceeds its max_ms, results without a
\* gate change nothing, and for every list of results main exits 0 iff passed
\* (iff no gated result of the list exceeds its gate's max_ms).
C12_GatesAndExitCode ==
    /\ ReportConsistent
    /\ ExitedAfterParsing => (rc = 0 <=> NoneExceeds(results))

\* C12 amended: the same for the report; main exits 0 iff --help was given
\* or it parsed at least one result and the report's passed is true; with
\* no result parsed it exits 1 without building a report.
C12_GatesAndExitCodeUnlessEmpty ==
    /\ ReportConsistent
    /\ bpc = "done" =>
          (rc = 0 <=> (argv.help \/ (report.built /\ report.passed)))
    /\ (ExitedAfterParsing /\ results # <<>>) =>
          (report.built /\ (rc = 0 <=> NoneExceeds(results)))
    /\ (ExitedAfterParsing /\ results = <<>>) => (rc = 1 /\ ~report.built)

\* C12 witness: main exits 1 on the report of a failed gate followed by a
\* result without a gate
C12_Witness ==
    /\ bpc = "done"
    /\ rc = 1
    /\ report.built
    /\ report.total_benchmarks = 2
    /\ report.gated_benchmarks = 1
    /\ report.gates_failed = 1
    /\ report.results[2].gate_passed = "None"
    /\ ~report.passed

\* a gate passed at exactly max_ms, its target missed: main exits 0
C12_WitnessAtMax ==
    /\ bpc = "done"
    /\ rc = 0
    /\ report.built
    /\ report.gates_passed = 1
    /\ report.targets_met = 0
    /\ \E k \in 1..Len(results) :
          /\ HasGate(results[k].name)
          /\ results[k].ns_per_op = 1000000 * PERFORMANCE_GATES[results[k].name].max_ms

\* main exits 1 although nothing failed: no benchmark line in the input
C12_WitnessEmpty ==
    /\ ExitedAfterParsing
    /\ results = <<>>
    /\ rc = 1

====
